---- MODULE Spec2Model ----
(***************************************************************************)
(* Model of the convfin_qa evaluation harness.                             *)
(*                                                                         *)
(*   - the generate/reflect workflow graph  (src/src/fin_qa/graph.py)      *)
(*   - the evaluation runner that drives it (src/cli.py)                   *)
(*   - number extraction and the numeric-with-units matcher                *)
(*                                          (src/src/fin_qa/evaluate.py)   *)
(*   - the quote normalisation before parsing                              *)
(*                                          (src/src/data_conversion.py)   *)
(*                                                                         *)
(* The specifications share the variables:                                 *)
(*   SpecLoop  one graph run on a fresh thread (a one-message transcript)  *)
(*   Spec      the runner: records, their questions, one graph run each    *)
(*   SpecOne   the runner on a single question, on every text              *)
(*   SpecEval  extract_number / numerical_match_with_units on bounded      *)
(*             input strings                                               *)
(*   SpecRound the matcher on well-formed decimal numerals                 *)
(*   SpecUnits the matcher on amounts with sign, currency, separators, %   *)
(*   SpecJson  fix_invalid_json on bounded texts                           *)
(***************************************************************************)
EXTENDS Integers, Sequences, FiniteSets, TLC

VARIABLES
    pc,             \* position of the runner / the graph run
    messages,       \* state["messages"] of the thread of the current record
    translated,     \* reflection_node's role-swapped view handed to the critic
    calls,          \* agent invocations made by the current graph run
    data,           \* the loaded records: data[i] = number of questions of record i
    n,              \* cli argument --n
    idx,            \* enumerate index of the current record (0-based)
    qa,             \* position in question_answer of the current question (1-based)
    response,       \* cli.main's local `response` (Unbound until first assigned)
    records,        \* cli.main's list `records`
    ground_truth,   \* matcher input
    prediction,     \* matcher input
    number,         \* what extract_number(ground_truth) gave
    matched,        \* what numerical_match_with_units(ground_truth, prediction) gave
    processed,      \* the matcher's locals ground_truth_float / processed_prediction
    json_string,    \* fix_invalid_json input
    fixed           \* what successive fix_invalid_json calls returned

vars == <<pc, messages, translated, calls, data, n, idx, qa, response, records,
          ground_truth, prediction, number, matched, processed,
          json_string, fixed>>

loopVars == <<pc, messages, translated, calls>>
runVars  == <<data, n, idx, qa, response, records>>
jsonVars == <<json_string, fixed>>
evalVars == <<ground_truth, prediction, number, matched, processed, jsonVars>>

----------------------------------------------------------------------------
(* Bounds of the model *)

MaxRecords == 2     \* records in the data file
MaxQuestions == 2   \* questions in the data file, all records together
MaxLen == 2         \* characters of a matcher input string
MaxDigits == 3      \* digits of a decimal numeral given to the matcher
MaxIntDigits == 1   \* digits before the decimal point of such a numeral
MaxJsonLen == 3     \* characters of a text given to fix_invalid_json
MaxAmountDigits == 4    \* digits before the decimal point of an amount

----------------------------------------------------------------------------
(* Messages                                                                *)
(*                                                                         *)
(* A message is [type, content].  The text of a message is abstracted to   *)
(* what the program reads of it: whether it contains the sentinel "ALL_OK",*)
(* whether it contains the marker "```json", and which text it is (the     *)
(* question whose run produced it, its position in the thread and who      *)
(* wrote it: the runner's question, the generator or the critic).          *)

\* a local that was never assigned / the dict graph.ainvoke returns
Unbound == [bound |-> FALSE, messages |-> << >>]
Bound(msgs) == [bound |-> TRUE, messages |-> msgs]
END == "__end__"

Text(q, pos, by, allok, json) ==
    [q |-> q, pos |-> pos, by |-> by, ALL_OK |-> allok, json |-> json]

HumanMessage(content) == [type |-> "human", content |-> content]
AIMessage(content) == [type |-> "ai", content |-> content]

\* the length cap of should_continue
LengthCap == 6

----------------------------------------------------------------------------
(* The workflow graph: src/src/fin_qa/graph.py                             *)

\* cls_map = {"ai": HumanMessage, "human": AIMessage}
cls_map(type) == IF type = "ai" THEN "human" ELSE "ai"

\* Translate with the first message role-swapped like the others
Translate_swap_first(msgs) ==
    [i \in 1..Len(msgs) |->
        [type |-> cls_map(msgs[i].type), content |-> msgs[i].content]]

\* translated = [messages[0]] + [cls_map[msg.type](content=msg.content) ...]
Translate(msgs) ==
    [i \in 1..Len(msgs) |->
        IF i = 1 THEN msgs[1]
        ELSE [type |-> cls_map(msgs[i].type), content |-> msgs[i].content]]

\* should_continue with the cap test written >= instead of >
should_continue_ge(msgs) ==
    IF Len(msgs) >= LengthCap \/ msgs[Len(msgs) - 1].content.ALL_OK
    THEN END
    ELSE "reflect"

\* should_continue reading the last message instead of the second-to-last
should_continue_last(msgs) ==
    IF Len(msgs) > LengthCap \/ msgs[Len(msgs)].content.ALL_OK
    THEN END
    ELSE "reflect"

\* should_continue with the cap test two messages too late
should_continue_late(msgs) ==
    IF Len(msgs) > LengthCap + 2 \/ msgs[Len(msgs) - 1].content.ALL_OK
    THEN END
    ELSE "reflect"

\* should_continue: END when the transcript is longer than the cap or the
\* second-to-last message contains the sentinel, else "reflect"
should_continue(msgs) ==
    IF Len(msgs) > LengthCap \/ msgs[Len(msgs) - 1].content.ALL_OK
    THEN END
    ELSE "reflect"

\* the question whose graph run is executing
CurrentQuestion == <<idx, qa>>

\* generation_node returned: add_messages appends the generator's message,
\* the step is checkpointed, the conditional edge is evaluated
Generate(allok, json) ==
    /\ pc = "generate"
    /\ LET msg == AIMessage(Text(CurrentQuestion, Len(messages) + 1, "generator",
                                   allok, json))
           new == Append(messages, msg)
       IN /\ messages' = new
          /\ pc' = should_continue(new)
    /\ calls' = [calls EXCEPT !.generate = @ + 1]
    /\ UNCHANGED <<translated, runVars, evalVars>>

\* generate_agent.ainvoke raised (after its own retries): the exception
\* leaves graph.ainvoke
GenerateFail ==
    /\ pc = "generate"
    /\ pc' = "except"
    /\ calls' = [calls EXCEPT !.generate = @ + 1]
    /\ UNCHANGED <<messages, translated, runVars, evalVars>>

\* reflection_node up to its await: the role-swapped view is built and
\* handed to the critic
ReflectCall ==
    /\ pc = "reflect"
    /\ translated' = Translate(messages)
    /\ calls' = [calls EXCEPT !.reflect = @ + 1]
    /\ pc' = "reflect_await"
    /\ UNCHANGED <<messages, runVars, evalVars>>

\* reflection_node returning the critic's message with its own role
ReflectReturn_ai(allok, json) ==
    /\ pc = "reflect_await"
    /\ messages' = Append(messages,
           AIMessage(Text(CurrentQuestion, Len(messages) + 1, "critic",
                          allok, json)))
    /\ translated' = << >>
    /\ pc' = "generate"
    /\ UNCHANGED <<calls, runVars, evalVars>>

\* the critic answered: its text is appended as a HumanMessage; the edge
\* reflect -> generate is unconditional
ReflectReturn(allok, json) ==
    /\ pc = "reflect_await"
    /\ messages' = Append(messages,
           HumanMessage(Text(CurrentQuestion, Len(messages) + 1, "critic",
                             allok, json)))
    /\ translated' = << >>        \* the node's local is gone with the node
    /\ pc' = "generate"
    /\ UNCHANGED <<calls, runVars, evalVars>>

\* reflect_agent.ainvoke raised
ReflectFail ==
    /\ pc = "reflect_await"
    /\ translated' = << >>
    /\ pc' = "except"
    /\ UNCHANGED <<messages, calls, runVars, evalVars>>

----------------------------------------------------------------------------
(* Number extraction and matching: src/src/fin_qa/evaluate.py              *)
(*                                                                         *)
(* A string is a sequence of characters of Alphabet.  A number is          *)
(* [kind, neg, mant, dec]: kind "int" or "float", value                    *)
(* (-1)^neg * mant / 10^dec; kind "None" is Python's None and kind         *)
(* "ValueError" the exception int() / float() raise.                       *)

Digits == {"0", "1", "5", "9"}
Whitespace == {" "}
Alphabet == Digits \cup Whitespace \cup {"-", "$", ",", ".", "%", "a"}

DigitValue(c) ==
    CASE c = "0" -> 0 [] c = "1" -> 1 [] c = "5" -> 5 [] c = "9" -> 9

RECURSIVE Pow(_, _)
Pow(b, e) == IF e = 0 THEN 1 ELSE b * Pow(b, e - 1)

Abs(x) == IF x < 0 THEN -x ELSE x

\* first index from j on whose character is not in S (Len(s) + 1 if none)
RECURSIVE RunEnd(_, _, _)
RunEnd(s, j, S) ==
    IF j <= Len(s) /\ s[j] \in S THEN RunEnd(s, j + 1, S) ELSE j

\* number_pattern = r"-?(?:\$)?[\d,]+\.?\d*" matched at position i: the
\* index after the match, 0 when there is none.  Every quantifier is greedy
\* and no shorter choice of an earlier one lets a later one succeed.
MatchEnd(s, i) ==
    LET a == IF s[i] = "-" THEN i + 1 ELSE i
        b == IF a <= Len(s) /\ s[a] = "$" THEN a + 1 ELSE a
        c == RunEnd(s, b, Digits \cup {","})
        d == IF c <= Len(s) /\ s[c] = "." THEN c + 1 ELSE c
        e == RunEnd(s, d, Digits)
    IN IF c > b THEN e ELSE 0

\* re.search(number_pattern, string): the leftmost match
re_search(s) ==
    LET starts == {i \in 1..Len(s) : MatchEnd(s, i) # 0} IN
    IF starts = {}
    THEN [found |-> FALSE, group |-> << >>]
    ELSE LET i == CHOOSE x \in starts : \A y \in starts : x <= y
         IN [found |-> TRUE, group |-> SubSeq(s, i, MatchEnd(s, i) - 1)]

\* str.replace(c, "") for every c in S
Remove(s, S) == SelectSeq(s, LAMBDA c : c \notin S)

RECURSIVE ToNat(_)
ToNat(ds) ==
    IF ds = << >> THEN 0
    ELSE 10 * ToNat(SubSeq(ds, 1, Len(ds) - 1)) + DigitValue(ds[Len(ds)])

None == [kind |-> "None", neg |-> FALSE, mant |-> 0, dec |-> 0]
ValueError == [kind |-> "ValueError", neg |-> FALSE, mant |-> 0, dec |-> 0]

\* float(number_str) if "." in number_str else int(number_str), for
\* number_str of the shape -?digits*(.digits*)? the pattern leaves
ToNumber(number_str) ==
    LET neg  == number_str # << >> /\ number_str[1] = "-"
        body == IF neg THEN Tail(number_str) ELSE number_str
        dots == {i \in 1..Len(body) : body[i] = "."}
    IN IF dots # {}
       THEN LET dot  == CHOOSE i \in dots : TRUE
                int  == SubSeq(body, 1, dot - 1)
                frac == SubSeq(body, dot + 1, Len(body))
            IN IF int = << >> /\ frac = << >>
               THEN ValueError
               ELSE [kind |-> "float", neg |-> neg,
                     mant |-> ToNat(int \o frac), dec |-> Len(frac)]
       ELSE IF body = << >>
            THEN ValueError
            ELSE [kind |-> "int", neg |-> neg, mant |-> ToNat(body), dec |-> 0]

\* extract_number: None when the pattern matches nowhere
extract_number(string) ==
    LET match == re_search(string) IN
    IF match.found
    THEN ToNumber(Remove(match.group, {"$", ","}))
    ELSE None

\* str.strip(): leading and trailing characters of S removed
RECURSIVE StripLeft(_, _)
StripLeft(s, S) ==
    IF s # << >> /\ s[1] \in S THEN StripLeft(Tail(s), S) ELSE s

RECURSIVE StripRight(_, _)
StripRight(s, S) ==
    IF s # << >> /\ s[Len(s)] \in S
    THEN StripRight(SubSeq(s, 1, Len(s) - 1), S)
    ELSE s

Strip(s, S) == StripRight(StripLeft(s, S), S)

\* sub in s (str.__contains__)
Contains(s, sub) ==
    \E i \in 1..(Len(s) - Len(sub) + 1) : SubSeq(s, i, i + Len(sub) - 1) = sub

\* ground_truth.strip("0123456789.-").strip()
UnitOf(gt) == Strip(Strip(gt, Digits \cup {".", "-"}), Whitespace)

RECURSIVE TrimZeros(_, _)
TrimZeros(mant, dec) ==
    IF dec > 1 /\ mant % 10 = 0 THEN TrimZeros(mant \div 10, dec - 1)
    ELSE IF dec = 0 THEN [mant |-> mant * 10, dec |-> 1]
    ELSE [mant |-> mant, dec |-> dec]

\* the decimal places taken from the numeral as written
DecimalPlaces_written(v) == v.dec

\* len(str(x).split(".")[1]) for the float x = mant / 10^dec: the digits
\* repr prints after the point (at least one; no exponent form for the
\* magnitudes strings of the model's length can hold)
DecimalPlaces(v) == TrimZeros(v.mant, v.dec).dec

\* Python's round() and math.isclose() work on binary doubles.  Where the
\* decimal value decides the outcome the operators below compute it; the two
\* sets list, for the numbers that strings of up to 5 characters over
\* Alphabet spell, the cases where the double nearest to the decimal value
\* decides otherwise:
\*   InexactTiesUp   <<mant, dec, d>>: mant / 10^dec lies halfway between
\*                   two d-digit decimals, is no binary fraction, and its
\*                   double lies above it, so round(x, d) rounds up
\*   BoundaryApart   <<a, b, d>>: |a - b| = max(a, b) / 10 exactly, and
\*                   isclose(a / 10^d, b / 10^d, rel_tol=1e-1) is False
\*                   because the rounded difference exceeds the rounded bound
InexactTiesUp ==
    {<<5, 2, 1>>, <<5, 3, 2>>, <<50, 3, 1>>, <<55, 2, 1>>, <<55, 3, 2>>,
    <<95, 3, 2>>, <<105, 2, 1>>, <<115, 3, 2>>, <<155, 2, 1>>,
    <<195, 3, 2>>, <<505, 3, 2>>, <<515, 2, 1>>, <<515, 3, 2>>,
    <<550, 3, 1>>, <<555, 3, 2>>, <<595, 2, 1>>, <<905, 2, 1>>,
    <<905, 3, 2>>, <<915, 2, 1>>, <<915, 3, 2>>, <<955, 2, 1>>,
    <<1005, 2, 1>>, <<1015, 2, 1>>, <<1050, 3, 1>>, <<1055, 2, 1>>,
    <<1105, 2, 1>>, <<1115, 2, 1>>, <<1155, 2, 1>>, <<1155, 3, 2>>,
    <<1195, 3, 2>>, <<1505, 2, 1>>, <<1515, 2, 1>>, <<1550, 3, 1>>,
    <<1555, 2, 1>>, <<1905, 2, 1>>, <<1905, 3, 2>>, <<1915, 3, 2>>,
    <<1955, 2, 1>>, <<1955, 3, 2>>, <<1995, 3, 2>>, <<5095, 2, 1>>,
    <<5105, 3, 2>>, <<5115, 3, 2>>, <<5150, 3, 1>>, <<5155, 3, 2>>,
    <<5195, 2, 1>>, <<5195, 3, 2>>, <<5595, 2, 1>>, <<5905, 3, 2>>,
    <<5915, 3, 2>>, <<5950, 3, 1>>, <<5955, 3, 2>>, <<5995, 2, 1>>,
    <<5995, 3, 2>>, <<9005, 3, 2>>, <<9015, 2, 1>>, <<9015, 3, 2>>,
    <<9050, 3, 1>>, <<9095, 2, 1>>, <<9095, 3, 2>>, <<9105, 3, 2>>,
    <<9115, 2, 1>>, <<9115, 3, 2>>, <<9150, 3, 1>>, <<9195, 2, 1>>,
    <<9195, 3, 2>>, <<9505, 3, 2>>, <<9515, 2, 1>>, <<9515, 3, 2>>,
    <<9550, 3, 1>>, <<9595, 2, 1>>, <<9595, 3, 2>>, <<9915, 2, 1>>,
    <<9955, 3, 2>>, <<9995, 2, 1>>}

BoundaryApart ==
    {<<9, 10, 2>>, <<9, 10, 3>>, <<99, 110, 2>>, <<999, 1110, 3>>,
    <<9009, 10010, 1>>, <<9099, 10110, 1>>, <<9909, 11010, 1>>,
    <<9999, 11110, 1>>, <<10010, 9009, 1>>, <<10110, 9099, 1>>,
    <<11010, 9909, 1>>, <<11110, 9999, 1>>}

\* |round(x, d)| * 10^d for x = mant / 10^dec, d = 0 for round(x); Python
\* rounds the exact value of the double, ties to even
RoundMagnitude(mant, dec, d) ==
    IF dec <= d
    THEN mant * Pow(10, d - dec)
    ELSE LET scale == Pow(10, dec - d)
             q == mant \div scale
             r == mant % scale
         IN IF 2 * r < scale THEN q
            ELSE IF 2 * r > scale THEN q + 1
            ELSE IF mant % Pow(5, dec) = 0
                 THEN (IF q % 2 = 0 THEN q ELSE q + 1)
                 ELSE IF <<mant, dec, d>> \in InexactTiesUp THEN q + 1 ELSE q

Signed(neg, m) == IF neg THEN -m ELSE m

Max(x, y) == IF x >= y THEN x ELSE y

\* the comparison with the tolerance of one percent
isclose_percent(a, b, d) == 100 * Abs(a - b) <= Max(Abs(a), Abs(b))

\* math.isclose(a / 10^d, b / 10^d, rel_tol=1e-1):
\* abs(a - b) <= rel_tol * max(abs(a), abs(b))
isclose(a, b, d) ==
    LET diff == 10 * Abs(a - b)
        big  == Max(Abs(a), Abs(b))
    IN IF diff < big THEN TRUE
       ELSE IF diff > big THEN FALSE
       ELSE <<Abs(a), Abs(b), d>> \notin BoundaryApart

\* lines 45-50: the prediction rounded to the decimal places the ground
\* truth value prints with (to an integer when it prints none); g and p are
\* ground_truth_float and processed_prediction times 10^places
Rounded(gv, pv) ==
    IF gv.kind = "float"
    THEN LET d == DecimalPlaces(gv)
         IN [set |-> TRUE, places |-> d,
             g |-> Signed(gv.neg, TrimZeros(gv.mant, gv.dec).mant),
             p |-> Signed(pv.neg, RoundMagnitude(pv.mant, pv.dec, d))]
    ELSE [set |-> TRUE, places |-> 0,
          g |-> Signed(gv.neg, gv.mant),
          p |-> Signed(pv.neg, RoundMagnitude(pv.mant, pv.dec, 0))]

\* line 53: ground_truth_float against processed_prediction
RoundAndCompare(gv, pv) ==
    LET r == Rounded(gv, pv) IN isclose(r.g, r.p, r.places)

\* numerical_match_with_units: "True", "False", or "ValueError" when
\* extract_number raises (its calls are outside the try block)
numerical_match_with_units(gt, pred) ==
    LET g    == Strip(gt, Whitespace)
        p    == Strip(pred, Whitespace)
        gv   == extract_number(g)
        unit == UnitOf(g)
        pv   == extract_number(p)
    IN IF gv.kind = "ValueError" THEN "ValueError"
       ELSE IF unit # << >> /\ ~Contains(p, unit) THEN "False"
       ELSE IF pv.kind = "ValueError" THEN "ValueError"
       ELSE IF gv.kind = "None" \/ pv.kind = "None" THEN "False"
       ELSE IF RoundAndCompare(gv, pv) THEN "True" ELSE "False"

\* the locals before line 46 is reached
NotProcessed == [set |-> FALSE, places |-> 0, g |-> 0, p |-> 0]

\* the locals after lines 46-50 when the call gets there: decimal_places,
\* ground_truth_float and processed_prediction, both scaled by 10^places
Processed(gt, pred) ==
    LET g    == Strip(gt, Whitespace)
        p    == Strip(pred, Whitespace)
        gv   == extract_number(g)
        unit == UnitOf(g)
        pv   == extract_number(p)
    IN IF gv.kind = "ValueError" THEN NotProcessed
       ELSE IF unit # << >> /\ ~Contains(p, unit) THEN NotProcessed
       ELSE IF pv.kind = "ValueError" THEN NotProcessed
       ELSE IF gv.kind = "None" \/ pv.kind = "None" THEN NotProcessed
       ELSE Rounded(gv, pv)

\* the strings over Alphabet of at most len characters
Strings(len) == UNION {[1..k -> Alphabet] : k \in 0..len}

\* a call extract_number(ground_truth)
ExtractNumber ==
    /\ pc = "eval"
    /\ number' = extract_number(ground_truth)
    /\ pc' = "extracted"
    /\ UNCHANGED <<messages, translated, calls, runVars,
                   ground_truth, prediction, matched, processed, jsonVars>>

\* a call numerical_match_with_units(ground_truth, pred)
NumericalMatchWithUnits(pred) ==
    /\ pc = "eval"
    /\ prediction' = pred
    /\ matched' = numerical_match_with_units(ground_truth, pred)
    /\ processed' = Processed(ground_truth, pred)
    /\ pc' = "matched"
    /\ UNCHANGED <<messages, translated, calls, runVars, ground_truth, number,
                   jsonVars>>

----------------------------------------------------------------------------
(* fix_invalid_json: src/src/data_conversion.py                            *)

\* the characters of the texts: the two quote characters, a letter, a digit
JsonAlphabet == {"'", "\"", "a", "1"}

JsonTexts(len) == UNION {[1..k -> JsonAlphabet] : k \in 0..len}

\* json_string.replace("'", '"')
fix_invalid_json(s) ==
    [i \in 1..Len(s) |-> IF s[i] = "'" THEN "\"" ELSE s[i]]

\* json.loads accepts the text.  Over JsonAlphabet the JSON documents are
\* the numbers 1, 11, ... and the string literals: a double quote, any
\* characters but the double quote, a double quote
IsValidJson(s) ==
    \/ /\ s # << >>
       /\ \A i \in 1..Len(s) : s[i] = "1"
    \/ /\ Len(s) >= 2
       /\ s[1] = "\"" /\ s[Len(s)] = "\""
       /\ \A i \in 2..(Len(s) - 1) : s[i] # "\""

\* a call fix_invalid_json(json_string)
FixInvalidJson ==
    /\ pc = "json"
    /\ fixed' = <<fix_invalid_json(json_string)>>
    /\ pc' = "fixed"
    /\ UNCHANGED <<messages, translated, calls, runVars, ground_truth,
                   prediction, number, matched, processed, json_string>>

\* a second call, on what the first returned
FixAgain ==
    /\ pc = "fixed"
    /\ fixed' = Append(fixed, fix_invalid_json(fixed[Len(fixed)]))
    /\ pc' = "refixed"
    /\ UNCHANGED <<messages, translated, calls, runVars, ground_truth,
                   prediction, number, matched, processed, json_string>>

----------------------------------------------------------------------------
(* The runner: src/cli.py, main                                            *)

NoCalls == [generate |-> 0, reflect |-> 0]

\* graph.ainvoke({"messages": [HumanMessage(user_proxy_message)]}, config):
\* the input is merged by add_messages into the state checkpointed under
\* thread_id = idx, then the graph starts at generate
Ainvoke(allok, json) ==
    /\ pc = "ainvoke"
    /\ messages' = Append(messages,
           HumanMessage(Text(CurrentQuestion, Len(messages) + 1, "question",
                             allok, json)))
    /\ calls' = NoCalls
    /\ pc' = "generate"
    /\ UNCHANGED <<translated, runVars, evalVars>>

\* every message that contains the marker, of whatever role
ai_messages_any(resp) == SelectSeq(resp, LAMBDA x : x.content.json)

\* ai_messages = [x.content for x in response["messages"]
\*                if isinstance(x, AIMessage) and "```json" in x.content]
ai_messages(resp) ==
    SelectSeq(resp, LAMBDA x : x.type = "ai" /\ x.content.json)

\* the entry appended to records for the current question
Record(content) ==
    [question |-> CurrentQuestion, prediction |-> <<content.q, content.pos>>]

\* the end of the body of `for question, ground_truth in question_answer`,
\* the `if idx == n - 1: break` and the exhaustion of load_financial_data
Advance ==
    IF qa < data[idx + 1]
    THEN /\ qa' = qa + 1
         /\ pc' = "ainvoke"
         /\ UNCHANGED <<idx, messages>>
    ELSE IF idx = n - 1 \/ idx + 1 = Len(data)
    THEN /\ pc' = "evaluate"
         /\ UNCHANGED <<idx, qa, messages>>
    ELSE /\ idx' = idx + 1
         /\ qa' = 1
         /\ messages' = << >>      \* thread_id f"{idx}" has no checkpoint yet
         /\ pc' = "ainvoke"

\* lines 128-165 reading `resp` as the value of the local `response`;
\* parsed: whether parser.parse_with_prompt accepts the selected text.
\* Reading the unbound local raises UnboundLocalError and a rejected text
\* raises OutputParserException: neither is caught, main ends.
PostProcess(resp, parsed) ==
    IF ~resp.bound
    THEN /\ pc' = "crashed"
         /\ UNCHANGED <<records, idx, qa, messages>>
    ELSE LET ai == ai_messages(resp.messages) IN
         IF Len(ai) >= 1
         THEN IF parsed
              THEN /\ records' = Append(records, Record(ai[Len(ai)].content))
                   /\ Advance
              ELSE /\ pc' = "crashed"
                   /\ UNCHANGED <<records, idx, qa, messages>>
         ELSE /\ records' = records
              /\ Advance

\* graph.ainvoke returned the final state: response is assigned, then the
\* rest of the loop body runs
AinvokeReturn(parsed) ==
    /\ pc = END
    /\ response' = Bound(messages)
    /\ PostProcess(Bound(messages), parsed)
    /\ UNCHANGED <<translated, calls, data, n, evalVars>>

\* graph.ainvoke raised: the except clause logs the error, response keeps
\* whatever it held, then the rest of the loop body runs
AinvokeRaise(parsed) ==
    /\ pc = "except"
    /\ response' = response
    /\ PostProcess(response, parsed)
    /\ UNCHANGED <<translated, calls, data, n, evalVars>>

\* lines 171-224: the metrics are computed over records.  On an empty
\* DataFrame the column selection output_df[output_cols] raises KeyError.
Evaluate ==
    /\ pc = "evaluate"
    /\ pc' = IF records = << >> THEN "crashed" ELSE "done"
    /\ UNCHANGED <<messages, translated, calls, runVars, evalVars>>

----------------------------------------------------------------------------
(* Specifications                                                          *)

Idle == [kind |-> "idle", neg |-> FALSE, mant |-> 0, dec |-> 0]

EvalIdle ==
    /\ ground_truth = << >>
    /\ prediction = << >>
    /\ number = Idle
    /\ matched = "idle"
    /\ processed = NotProcessed
    /\ json_string = << >>
    /\ fixed = << >>

\* for key in ["qa_0", "qa_1", "qa"]: a record has at most three questions
QAKeys == 3

RECURSIVE Sum(_)
Sum(s) == IF s = << >> THEN 0 ELSE s[1] + Sum(Tail(s))

\* the data files the runner is started on: each record has at least one
\* question
DataFiles ==
    {d \in UNION {[1..len -> 1..QAKeys] : len \in 1..MaxRecords} :
        Sum(d) <= MaxQuestions}

Init ==
    /\ pc = "ainvoke"
    /\ messages = << >>
    /\ translated = << >>
    /\ calls = NoCalls
    /\ data \in DataFiles
    /\ n \in 1..MaxRecords
    /\ idx = 0
    /\ qa = 1
    /\ response = Unbound
    /\ records = << >>
    /\ EvalIdle

\* The runner is explored on texts in which only the critic may write the
\* sentinel and only the question and the generator the marker; SpecLoop
\* explores every text.
Next ==
    \/ \E json \in BOOLEAN : Ainvoke(FALSE, json)
    \/ \E json \in BOOLEAN : Generate(FALSE, json)
    \/ GenerateFail
    \/ ReflectCall
    \/ \E allok \in BOOLEAN : ReflectReturn(allok, FALSE)
    \/ ReflectFail
    \/ \E parsed \in BOOLEAN : AinvokeReturn(parsed)
    \/ \E parsed \in BOOLEAN : AinvokeRaise(parsed)
    \/ Evaluate

Spec == Init /\ [][Next]_vars

\* one graph run on a fresh thread: the state right after the input message
\* was merged into an empty checkpoint
InitLoop ==
    /\ pc = "generate"
    /\ \E allok \in BOOLEAN, json \in BOOLEAN :
           messages = <<HumanMessage(Text(<<0, 1>>, 1, "question", allok, json))>>
    /\ translated = << >>
    /\ calls = NoCalls
    /\ data = <<1>>
    /\ n = 1
    /\ idx = 0
    /\ qa = 1
    /\ response = Unbound
    /\ records = << >>
    /\ EvalIdle

NextLoop ==
    \/ \E allok \in BOOLEAN, json \in BOOLEAN : Generate(allok, json)
    \/ GenerateFail
    \/ ReflectCall
    \/ \E allok \in BOOLEAN, json \in BOOLEAN : ReflectReturn(allok, json)
    \/ ReflectFail

SpecLoop == InitLoop /\ [][NextLoop]_vars

\* graph.ainvoke awaits each node: a pending generate or reflect step is
\* eventually taken (its agent call returns or raises)
SpecLoopFair == SpecLoop /\ WF_vars(NextLoop)

\* the runner on a data file of one record with one question, explored on
\* every text: the question, the generator and the critic may each write
\* the sentinel and the marker
InitOne ==
    /\ pc = "ainvoke"
    /\ messages = << >>
    /\ translated = << >>
    /\ calls = NoCalls
    /\ data = <<1>>
    /\ n = 1
    /\ idx = 0
    /\ qa = 1
    /\ response = Unbound
    /\ records = << >>
    /\ EvalIdle

NextOne ==
    \/ \E allok \in BOOLEAN, json \in BOOLEAN : Ainvoke(allok, json)
    \/ NextLoop
    \/ \E parsed \in BOOLEAN : AinvokeReturn(parsed)
    \/ \E parsed \in BOOLEAN : AinvokeRaise(parsed)
    \/ Evaluate

SpecOne == InitOne /\ [][NextOne]_vars

\* the numeral written with thousands separators: "1555" as "1,555"
RECURSIVE Grouped(_)
Grouped(ds) ==
    IF Len(ds) <= 3 THEN ds
    ELSE Grouped(SubSeq(ds, 1, Len(ds) - 3))
             \o <<",">> \o SubSeq(ds, Len(ds) - 2, Len(ds))

\* the amounts [-][$]digits[.digit][%] of at most maxd digits before the
\* point over the digits 1 and 5, written with and without thousands
\* separators ("$1,555", "$1555", "-15.5%", "5")
Amounts(maxd) ==
    LET ints    == UNION {[1..k -> {"1", "5"}] : k \in 1..maxd}
        written == ints \cup {Grouped(ds) : ds \in ints}
        opt(c)  == {<< >>, <<c>>}
    IN {t[1] \o t[2] \o t[3] \o t[4] \o t[5] :
           t \in opt("-") \X opt("$") \X written
                 \X {<< >>, <<".", "5">>} \X opt("%")}

\* the matcher called on every bounded amount as ground truth and as
\* prediction
InitUnits ==
    /\ pc = "eval"
    /\ messages = << >>
    /\ translated = << >>
    /\ calls = NoCalls
    /\ data = <<1>>
    /\ n = 1
    /\ idx = 0
    /\ qa = 1
    /\ response = Unbound
    /\ records = << >>
    /\ ground_truth \in Amounts(MaxAmountDigits)
    /\ prediction = << >>
    /\ number = Idle
    /\ matched = "idle"
    /\ processed = NotProcessed
    /\ json_string = << >>
    /\ fixed = << >>

NextUnits ==
    /\ pc = "eval"
    /\ \E pred \in Amounts(MaxAmountDigits) : NumericalMatchWithUnits(pred)

SpecUnits == InitUnits /\ [][NextUnits]_vars

\* fix_invalid_json called on every bounded text, and again on its result
InitJson ==
    /\ pc = "json"
    /\ messages = << >>
    /\ translated = << >>
    /\ calls = NoCalls
    /\ data = <<1>>
    /\ n = 1
    /\ idx = 0
    /\ qa = 1
    /\ response = Unbound
    /\ records = << >>
    /\ ground_truth = << >>
    /\ prediction = << >>
    /\ number = Idle
    /\ matched = "idle"
    /\ processed = NotProcessed
    /\ json_string \in JsonTexts(MaxJsonLen)
    /\ fixed = << >>

NextJson == FixInvalidJson \/ FixAgain

SpecJson == InitJson /\ [][NextJson]_vars

\* the evaluate functions called on every bounded ground truth, the
\* matcher with every bounded prediction
InitEval ==
    /\ pc = "eval"
    /\ messages = << >>
    /\ translated = << >>
    /\ calls = NoCalls
    /\ data = <<1>>
    /\ n = 1
    /\ idx = 0
    /\ qa = 1
    /\ response = Unbound
    /\ records = << >>
    /\ ground_truth \in Strings(MaxLen)
    /\ prediction = << >>
    /\ number = Idle
    /\ matched = "idle"
    /\ processed = NotProcessed
    /\ json_string = << >>
    /\ fixed = << >>

NextEval ==
    \/ ExtractNumber
    \/ /\ pc = "eval"
       /\ \E pred \in Strings(MaxLen) : NumericalMatchWithUnits(pred)

SpecEval == InitEval /\ [][NextEval]_vars

\* the digit strings of exactly k digits
DigitStrings(k) == [1..k -> Digits]

\* the decimal numerals of at most maxd digits, at most MaxIntDigits of
\* them before the point: digits, optionally followed by a point and
\* further digits ("5", "5.", "1.5", "1.50", "0.09")
Decimals(maxd) ==
    LET ints  == UNION {DigitStrings(k) : k \in 1..MaxIntDigits}
        fracs == UNION {DigitStrings(k) : k \in 0..(maxd - 1)}
    IN ints \cup {t[1] \o <<".">> \o t[2] :
                       t \in {x \in ints \X fracs : Len(x[1]) + Len(x[2]) <= maxd}}

\* the evaluate functions called on well-formed decimal numerals, the
\* matcher with every such ground truth and prediction
InitRound ==
    /\ pc = "eval"
    /\ messages = << >>
    /\ translated = << >>
    /\ calls = NoCalls
    /\ data = <<1>>
    /\ n = 1
    /\ idx = 0
    /\ qa = 1
    /\ response = Unbound
    /\ records = << >>
    /\ ground_truth \in Decimals(MaxDigits)
    /\ prediction = << >>
    /\ number = Idle
    /\ matched = "idle"
    /\ processed = NotProcessed
    /\ json_string = << >>
    /\ fixed = << >>

NextRound ==
    \/ ExtractNumber
    \/ /\ pc = "eval"
       /\ \E pred \in Decimals(MaxDigits) : NumericalMatchWithUnits(pred)

SpecRound == InitRound /\ [][NextRound]_vars

----------------------------------------------------------------------------
(* Properties of one graph run on a fresh thread                           *)

\* no message of the transcript contains the sentinel
NoSentinel == \A i \in 1..Len(messages) : ~messages[i].content.ALL_OK

\* C1 as stated: a fresh run in which no message contains ALL_OK ends in
\* DONE with a transcript of exactly 6 messages, after at most 3 generator
\* calls and at most 3 critic calls.
C1_SixMessages ==
    (pc = END /\ NoSentinel) =>
        /\ Len(messages) = 6
        /\ calls.generate <= 3
        /\ calls.reflect <= 3

\* C1 amended: a fresh run in which no message contains ALL_OK never holds
\* more than 8 messages nor makes more than 4 generator and 3 critic calls,
\* its transcript in DONE has exactly 8 messages after exactly 4 generator
\* and 3 critic calls, and it reaches DONE unless an agent call raises.
C1_EightMessages ==
    /\ [](NoSentinel =>
            /\ Len(messages) <= 8
            /\ calls.generate <= 4
            /\ calls.reflect <= 3
            /\ (pc = END => /\ Len(messages) = 8
                            /\ calls.generate = 4
                            /\ calls.reflect = 3))
    /\ ([](NoSentinel /\ pc # "except") => <>(pc = END))

C1_Witness == pc = END /\ NoSentinel /\ Len(messages) = 8

\* C5: when the run ends on the sentinel test, the message found to contain
\* ALL_OK (the second-to-last one) was written by the critic.
C5_SentinelFromCritic ==
    (pc = END /\ messages[Len(messages) - 1].content.ALL_OK) =>
        messages[Len(messages) - 1].content.by = "critic"

\* positions of the critic messages containing the sentinel
SentinelCritics ==
    {i \in 1..Len(messages) :
        messages[i].content.by = "critic" /\ messages[i].content.ALL_OK}

Min(S) == CHOOSE x \in S : \A y \in S : x <= y

\* C6: once a critic message contains ALL_OK (the first such at position p)
\* no further critic call is made, only one more generate step runs and its
\* message is the last of the transcript in DONE; DONE is never entered
\* after a reflect step (the transcript in DONE ends with a generator
\* message and DONE is entered from generate).
C6_OneMoreGenerate ==
    /\ [](SentinelCritics # {} =>
            LET p == Min(SentinelCritics) IN
            /\ pc \in {"generate", END, "except"}
            /\ Len(messages) <= p + 1
            /\ (pc = "generate" => Len(messages) = p)
            /\ (pc = END => Len(messages) = p + 1)
            /\ \A i \in (p + 1)..Len(messages) :
                   messages[i].content.by = "generator")
    /\ [](pc = END => messages[Len(messages)].content.by = "generator")
    /\ [][pc' = END => pc = "generate"]_vars
    /\ [][(SentinelCritics # {} /\ pc = "generate" /\ pc' # "except")
              => pc' = END]_vars

C6_Witness ==
    /\ pc = END
    /\ SentinelCritics # {}
    /\ Min(SentinelCritics) = 5
    /\ Len(messages) = 6

\* C7: a reflect step hands the critic a view of the same length, order and
\* contents as the stored transcript, message 0 as stored and every later
\* message with its role inverted (generator answers as human, critic
\* messages as ai), and leaves the stored transcript as it was.
C7_RoleSwappedView ==
    [][(pc = "reflect" /\ pc' = "reflect_await") =>
          /\ messages' = messages
          /\ Len(translated') = Len(messages)
          /\ translated'[1] = messages[1]
          /\ \A i \in 2..Len(messages) :
                /\ translated'[i].content = messages[i].content
                /\ translated'[i].type \in {"human", "ai"}
                /\ translated'[i].type # messages[i].type
                /\ (messages[i].content.by = "generator"
                        => translated'[i].type = "human")
                /\ (messages[i].content.by = "critic"
                        => translated'[i].type = "ai")]_vars

C7_Witness ==
    /\ pc = "reflect_await"
    /\ Len(messages) = 6
    /\ translated[1].type = "human"
    /\ translated[2].type = "human"
    /\ translated[3].type = "ai"

----------------------------------------------------------------------------
(* Properties of the runner                                                *)

\* a graph run is executing
InRun == pc \in {"generate", "reflect", "reflect_await", END, "except"}

\* C2: the transcript of a question's run holds only that question's own
\* messages, the question's human message first.
C2_FreshTranscript ==
    InRun =>
        /\ messages[1].content.by = "question"
        /\ \A i \in 1..Len(messages) : messages[i].content.q = CurrentQuestion

\* C3: when graph.ainvoke raised for a question, records gains no entry.
C3_NoRecordOnFailure ==
    [][pc = "except" => records' = records]_vars

\* C4: no failure of one question ends the evaluation: main never dies of
\* an uncaught exception.
C4_ContinuesPastFailures == pc # "crashed"

\* the transcript is the question followed by generator messages of the
\* assistant role at the even positions and critic messages of the human
\* role at the odd ones
Alternating ==
    /\ Len(messages) >= 1
    /\ messages[1].type = "human" /\ messages[1].content.by = "question"
    /\ \A i \in 2..Len(messages) :
           IF i % 2 = 0
           THEN messages[i].type = "ai" /\ messages[i].content.by = "generator"
           ELSE messages[i].type = "human" /\ messages[i].content.by = "critic"

\* the step appended exactly one message of the given role and author
Appended(type, by) ==
    /\ Len(messages') = Len(messages) + 1
    /\ messages'[Len(messages')].type = type
    /\ messages'[Len(messages')].content.by = by

\* C17: in a fresh single-question run the transcript is append-only and
\* strictly alternating: a generate step appends exactly one assistant-role
\* message, a reflect step exactly one human-role message of the critic,
\* earlier messages are never changed or removed, reflect is always
\* followed by generate, and the transcript in DONE has even length and
\* ends with a generator message.
C17_AppendOnlyAlternating ==
    /\ [](/\ Alternating
          /\ pc = END => /\ Len(messages) % 2 = 0
                         /\ messages[Len(messages)].content.by = "generator")
    /\ [][/\ Len(messages') >= Len(messages)
          /\ SubSeq(messages', 1, Len(messages)) = messages
          /\ (pc = "generate" /\ pc' # "except") => Appended("ai", "generator")
          /\ pc = "reflect" =>
                 /\ messages' = messages
                 /\ pc' \in {"reflect_await", "except"}
          /\ pc = "reflect_await" =>
                 \/ Appended("human", "critic") /\ pc' = "generate"
                 \/ messages' = messages /\ pc' = "except"]_vars

\* a run that ended after two rounds of generate and reflect or more
C17_Witness == pc = END /\ Len(messages) >= 6 /\ calls.reflect >= 2

\* C18: whatever the generator and the critic write, a run on a fresh
\* one-message transcript never makes more than 4 generator calls or 3
\* critic calls nor holds more than 8 messages, and it reaches DONE
\* provided no agent call fails.
C18_BoundedRun ==
    /\ [](/\ Len(messages) <= 8
          /\ calls.generate <= 4
          /\ calls.reflect <= 3)
    /\ [](pc # "except") => <>(pc = END)

\* a run that took all 4 generator and 3 critic calls although a message
\* contains the sentinel
C18_Witness ==
    /\ pc = END
    /\ ~NoSentinel
    /\ Len(messages) = 8
    /\ calls.generate = 4
    /\ calls.reflect = 3

\* the positions of the assistant-role messages of the transcript that
\* contain the marker
MarkedAssistant(msgs) ==
    {i \in 1..Len(msgs) : msgs[i].type = "ai" /\ msgs[i].content.json}

Last(S) == CHOOSE x \in S : \A y \in S : y <= x

\* C14: when graph.ainvoke returns, the prediction recorded for the question
\* comes from the last assistant-role message of the returned transcript
\* that contains the marker (or the run ends on its parse error), never
\* from a human-role message, and nothing is recorded when no assistant
\* message contains the marker.
C14_LastMarkedAssistant ==
    [][pc = END =>
          LET sel == MarkedAssistant(messages) IN
          IF sel = {}
          THEN records' = records
          ELSE \/ records' = Append(records,
                       [question |-> CurrentQuestion,
                        prediction |-> <<messages[Last(sel)].content.q,
                                         Last(sel)>>])
               \/ pc' = "crashed" /\ records' = records]_vars

\* a recorded prediction taken from an assistant message although a later
\* human-role message (the critic's) contains the marker too
C14_Witness ==
    /\ response.bound
    /\ Len(records) = 1
    /\ LET i == records[1].prediction[2]
       IN /\ response.messages[i].type = "ai"
          /\ \E j \in (i + 1)..Len(response.messages) :
                 /\ response.messages[j].type = "human"
                 /\ response.messages[j].content.json

\* C15: fix_invalid_json returns every valid JSON text unchanged, and
\* applying it twice gives the same text as applying it once.
C15_ValidUnchangedIdempotent ==
    /\ (pc \in {"fixed", "refixed"} /\ IsValidJson(json_string))
           => fixed[1] = json_string
    /\ pc = "refixed" => fixed[2] = fixed[1]

----------------------------------------------------------------------------
(* Properties of the evaluate functions                                    *)

\* the text holds no digit, hence no numeric value
NoDigit(s) == \A i \in 1..Len(s) : s[i] \notin Digits

\* C8: numerical_match_with_units returns False (and does not raise) when
\* either input holds no numeric value.
C8_GarbageIsFalse ==
    (pc = "matched" /\ (NoDigit(ground_truth) \/ NoDigit(prediction)))
        => matched = "False"

\* C9: extract_number returns None (and does not raise) for every text
\* that holds no digit.
C9_AbsenceWithoutDigit ==
    (pc = "extracted" /\ NoDigit(ground_truth)) => number = None

\* C10: numerical_match_with_units returns False whenever the unit left of
\* the ground truth is non-empty and is not a substring of the prediction.
C10_UnitGate ==
    (/\ pc = "matched"
     /\ UnitOf(Strip(ground_truth, Whitespace)) # << >>
     /\ ~Contains(Strip(prediction, Whitespace),
                  UnitOf(Strip(ground_truth, Whitespace))))
        => matched = "False"

\* C13: for a text that holds a digit, extract_number returns a number,
\* float-typed if and only if the numeral has at least one digit after its
\* decimal point, integer-typed otherwise.
C13_FloatIffFraction ==
    (pc = "extracted" /\ ~NoDigit(ground_truth)) =>
        /\ number.kind \in {"int", "float"}
        /\ number.kind = "float" <=> number.dec >= 1

\* position of the first decimal point of the text, 0 when it has none
RECURSIVE PointAt(_, _)
PointAt(s, i) ==
    IF i > Len(s) THEN 0 ELSE IF s[i] = "." THEN i ELSE PointAt(s, i + 1)

\* the digits the numeral is written with after its decimal point
WrittenPlaces(s) == IF PointAt(s, 1) = 0 THEN 0 ELSE Len(s) - PointAt(s, 1)

\* the zeros the numeral ends with
RECURSIVE TrailingZeros(_)
TrailingZeros(s) ==
    IF s # << >> /\ s[Len(s)] = "0"
    THEN 1 + TrailingZeros(SubSeq(s, 1, Len(s) - 1)) ELSE 0

\* the decimal places the numeral's value prints with: the written ones
\* less the trailing zeros, at least one when a point is written
PrintedPlaces(s) ==
    IF PointAt(s, 1) = 0 THEN 0
    ELSE Max(1, WrittenPlaces(s) - Min({TrailingZeros(s), WrittenPlaces(s)}))

\* processed_prediction is a multiple of 10^-places nearest to the
\* prediction's value
NearestToPrediction ==
    LET pv == extract_number(prediction)
    IN 2 * Abs(pv.mant * Pow(10, processed.places)
               - Abs(processed.p) * Pow(10, pv.dec)) <= Pow(10, pv.dec)

Distance10 == 10 * Abs(processed.g - processed.p)
Larger == Max(Abs(processed.g), Abs(processed.p))

\* C12 as stated: when the unit gate passes and both sides yield a number,
\* the matcher returns True exactly when |g - p| <= 0.1 * max(|g|, |p|)
\* for the ground-truth value g and the rounded prediction p.
C12_ExactTolerance ==
    (pc = "matched" /\ processed.set) =>
        (matched = "True" <=> Distance10 <= Larger)

\* C12 amended: when the unit gate passes and both sides yield a number,
\* the matcher returns True when |g - p| < 0.1 * max(|g|, |p|) or g = p and
\* False when |g - p| > 0.1 * max(|g|, |p|); a prediction that rounds to
\* the ground truth matches, one off by more than 10% does not, and a
\* ground truth of zero matches exactly the predictions that round to zero.
C12_Tolerance ==
    (pc = "matched" /\ processed.set) =>
        /\ matched \in {"True", "False"}
        /\ Distance10 < Larger => matched = "True"
        /\ processed.g = processed.p => matched = "True"
        /\ Distance10 > Larger => matched = "False"
        /\ processed.g = 0 => (matched = "True" <=> processed.p = 0)

\* a prediction exactly a tenth of the larger value away from the ground
\* truth that the matcher accepts
C12_Witness ==
    /\ pc = "matched"
    /\ processed.set
    /\ processed.g # processed.p
    /\ Distance10 = Larger
    /\ matched = "True"

\* C16: the unit left of an amount [-][$]digits[.digits][%] holds no digit,
\* comma or period, and two amounts that differ only in their thousands
\* separators match, whichever of them is the ground truth.
C16_SeparatorsIgnored ==
    pc = "matched" =>
        /\ \A i \in 1..Len(UnitOf(ground_truth)) :
               UnitOf(ground_truth)[i] \notin Digits \cup {",", "."}
        /\ Remove(ground_truth, {","}) = Remove(prediction, {","})
               => matched = "True"

====
